---- MODULE Spec2Model ----
(***************************************************************************)
(* Model of bonsai.active_directory.acl: the binary decoders               *)
(* ACE.from_binary and ACL.from_binary.  A buffer is a sequence of bytes   *)
(* (0..255); Python offsets are 0-based, sequence indices 1-based.         *)
(* Optional values: None is <<>>, a present value x is <<x>>.              *)
(* 32- and 48-bit unsigned values are kept as base-256 numerals (sequences *)
(* of digits, most significant first), 16-bit values as integers.          *)
(***************************************************************************)
EXTENDS Integers, Sequences, FiniteSets, TLC

\* ------------------------------------------------------------- bounds
MaxCount == 2       \* largest aceCount / number of entries in a generated ACL
MaxSubAuth == 1     \* largest sub-authority count of a generated trustee
MaxExtra == 2       \* most trailing bytes after the trustee of a generated ACE

\* ---------------------------------------------------------- constants
GuidLen == 16
SidHeaderLen == 8
AclHeaderLen == 8

\* --------------------------------------------------------- primitives
None == <<>>
Some(x) == <<x>>

Min(a, b) == IF a < b THEN a ELSE b
Max(a, b) == IF a > b THEN a ELSE b

\* Python's data[a:b] for 0 <= a, 0 <= b
Slice(d, a, b) ==
  IF a >= Min(b, Len(d)) THEN <<>> ELSE SubSeq(d, a + 1, Min(b, Len(d)))

\* Python's data[a:]
SliceFrom(d, a) == Slice(d, a, Len(d))

\* struct.unpack("<H", b)[0] on a 2-byte sequence
U16LE(b) == b[1] + 256 * b[2]

\* struct.unpack("<I", b)[0] on a 4-byte sequence
U32LE(b) == <<b[4], b[3], b[2], b[1]>>

\* struct.unpack(">L", b)[0] on a 4-byte sequence
U32BE(b) == <<b[1], b[2], b[3], b[4]>>

\* int.from_bytes(b, byteorder="big")
UBE(b) == b

\* value & bit # 0 for a single-bit constant and an integer value
BitSet(value, bit) == (value \div bit) % 2 = 1

\* value & bit # 0 for a single-bit constant below 256 and a 32-bit numeral
BitSet32(value, bit) == BitSet(value[4], bit)

\* ------------------------------------------------------- enumerations
ACEFlag == {1, 2, 4, 8, 16, 64, 128}

\* variant: one code too many is accepted
ACEType_Through20 == 0..20

ACEType == 0..19

ACLRevision == {2, 4}

\* variant: SYSTEM_ALARM_CALLBACK_OBJECT left out of the tuple
ObjectTypes_Without16 == {5, 6, 7, 8, 11, 12, 15}

\* the tuple tested at the object-extension branch
ObjectTypes == {5, 6, 7, 8, 11, 12, 15, 16}

\* the tuple tested at the application-data branch
AppDataTypes == {9, 10, 11, 12, 7, 13}

\* ------------------------------------------------ trustee identifier
\* SID(bytes_le=b): revision, sub-authority count, 6-byte big-endian
\* identifier authority, then count 4-byte little-endian sub-authorities.
SIDLen(n) == SidHeaderLen + 4 * n

SIDFromBytes(b) ==
  IF Len(b) < 2 THEN [status |-> "MalformedStructure", sid |-> None]
  ELSE IF Len(b) < SIDLen(b[2])
         THEN [status |-> "MalformedStructure", sid |-> None]
  ELSE [status |-> "ok",
        sid |-> Some([revision |-> b[1],
                      identifier_authority |-> UBE(SubSeq(b, 3, 8)),
                      subauthorities |->
                        [k \in 1..b[2] |->
                           U32LE(SubSeq(b, SidHeaderLen + 4 * (k - 1) + 1,
                                           SidHeaderLen + 4 * k))]])]

\* ----------------------------------------------------- ACE.from_binary
\* The local variables of ACE.from_binary when it returns or raises.
\* failed_at names the statement that raised ("" when none did);
\* read_end is one past the highest buffer offset any statement consumed.
Frame(status, fa, t, fl, sz, mk, of, ot, iot, sp, sid, pos, ad, re) ==
  [status |-> status, failed_at |-> fa, ace_type |-> t, flags |-> fl,
   size |-> sz, mask |-> mk, obj_flag |-> of, object_type |-> ot,
   inherited_object_type |-> iot, sid_pos |-> sp, trustee_sid |-> sid,
   pos |-> pos, application_data |-> ad, read_end |-> re]

Fail(status, fa, re) ==
  Frame(status, fa, 0, 0, 0, <<0, 0, 0, 0>>, <<0, 0, 0, 0>>, None, None, 0, None, 0, None, re)

\* variant: the payload runs to the end of the buffer, data[pos:]
AppData_ToEnd(data, pos, sz) == SliceFrom(data, pos)

\* line 130: data[pos:size]
AppData(data, pos, sz) == Slice(data, pos, sz)

\* lines 120-141: trustee, application data, construction
ACETail(data, t, fl, sz, mk, of, ot, iot, p) ==
  LET s == SIDFromBytes(SliceFrom(data, p)) IN
  IF s.status # "ok"
    THEN Fail(s.status, "trustee", Len(data))
  ELSE
    LET pos == p + SidHeaderLen + Len(s.sid[1].subauthorities) * 4
        ad  == IF t \in AppDataTypes THEN Some(AppData(data, pos, sz)) ELSE None
        re  == IF t \in AppDataTypes THEN Max(pos, Min(sz, Len(data))) ELSE pos
    IN Frame("ok", "", t, fl, sz, mk, of, ot, iot, p, s.sid, pos, ad, re)

\* lines 112-119: object flags and the two optional GUIDs
ACEObject(data, t, fl, sz, mk) ==
  IF Len(Slice(data, 8, 12)) # 4
    THEN Fail("MalformedStructure", "obj_flag", Len(data))
  ELSE
    LET of == U32LE(Slice(data, 8, 12))
        p1 == 12
        g1 == Slice(data, p1, p1 + GuidLen)
        p2 == IF BitSet32(of, 1) THEN p1 + GuidLen ELSE p1
        g2 == Slice(data, p2, p2 + GuidLen)
        p3 == IF BitSet32(of, 2) THEN p2 + GuidLen ELSE p2
    IN IF BitSet32(of, 1) /\ Len(g1) # GuidLen
         THEN Fail("MalformedStructure", "object_type", Len(data))
       ELSE IF BitSet32(of, 2) /\ Len(g2) # GuidLen
         THEN Fail("MalformedStructure", "inherited_object_type", Len(data))
       ELSE ACETail(data, t, fl, sz, mk, of,
                    IF BitSet32(of, 1) THEN Some(g1) ELSE None,
                    IF BitSet32(of, 2) THEN Some(g2) ELSE None, p3)

\* lines 93-143
ACELocals(data) ==
  IF Len(Slice(data, 0, 4)) # 4
    THEN Fail("MalformedStructure", "header", Len(data))
  ELSE IF Len(Slice(data, 4, 8)) # 4
    THEN Fail("MalformedStructure", "mask", Len(data))
  ELSE
    LET t  == data[1]
        fl == data[2]
        sz == U16LE(Slice(data, 2, 4))
        mk == U32BE(Slice(data, 4, 8))
    IN IF t \notin ACEType
         THEN Fail("UnrecognizedDiscriminant", "ace_type", 8)
       ELSE IF t \in ObjectTypes
         THEN ACEObject(data, t, fl, sz, mk)
       ELSE ACETail(data, t, fl, sz, mk, <<0, 0, 0, 0>>, None, None, 8)

\* the ACE value built by cls(...) and this.__size = size (lines 131-140)
ACEValue(f) ==
  [type |-> f.ace_type,
   flags |-> {flg \in ACEFlag : BitSet(f.flags, flg)},
   mask |-> f.mask,
   trustee_sid |-> f.trustee_sid[1],
   object_type |-> f.object_type,
   inherited_object_type |-> f.inherited_object_type,
   application_data |-> f.application_data,
   size |-> f.size]

\* what the caller of ACE.from_binary observes, given the frame the call
\* ended with: an ACE (line 141) or an error kind (lines 142-143)
ACEOutcome(f) ==
  IF f.status = "ok" THEN [status |-> "ok", ace |-> Some(ACEValue(f))]
  ELSE [status |-> f.status, ace |-> None]

ACEFromBinary(data) == ACEOutcome(ACELocals(data))

\* ------------------------------------------------------------ inputs
Rep(b, n) == [k \in 1..n |-> b]

LE16(n) == <<n % 256, n \div 256>>

SIDBytes(n) == <<1, n, 0, 0, 0, 0, 0, 5>> \o Rep(21, 4 * n)

\* bytes up to the trustee's end of a generated entry: with (ext) or without
\* an object extension, object flags of, n sub-authorities
NaturalLen(ext, of, n) ==
  8 + (IF ext
         THEN 4 + (IF BitSet(of, 1) THEN GuidLen ELSE 0)
                + (IF BitSet(of, 2) THEN GuidLen ELSE 0)
         ELSE 0)
    + SIDLen(n)

\* an entry with declared size sz followed by e further bytes
EncodeACE(t, sz, ext, of, n, e) ==
  <<t, 17>> \o LE16(sz) \o <<0, 31, 1, 255>>
    \o (IF ext
          THEN <<of, 0, 0, 0>>
                 \o (IF BitSet(of, 1) THEN Rep(161, GuidLen) ELSE <<>>)
                 \o (IF BitSet(of, 2) THEN Rep(178, GuidLen) ELSE <<>>)
          ELSE <<>>)
    \o SIDBytes(n) \o Rep(238, e)

\* declared sizes tried for an entry: zero, the trustee's end, the whole
\* entry, and more than any generated buffer holds
SizeChoices(ext, of, n, e) ==
  {0, NaturalLen(ext, of, n), NaturalLen(ext, of, n) + e,
   NaturalLen(ext, of, n) + e + 256}

TypeChoices == ACEType \cup {20, 99}

ObjFlagChoices(ext) == IF ext THEN 0..3 ELSE {0}

Prefixes(d, cuts) == {SubSeq(d, 1, c) : c \in {x \in cuts : x <= Len(d)}}

ACEInputs ==
  UNION {Prefixes(EncodeACE(q[1], q[6], q[2], q[3], q[4], q[5]),
                  {0, 3, 7, 8, 11, 27,
                   NaturalLen(q[2], q[3], q[4]) - 1,
                   NaturalLen(q[2], q[3], q[4]) + q[5]})
           : q \in {q \in TypeChoices \X BOOLEAN \X (0..3) \X (0..MaxSubAuth)
                            \X {0, MaxExtra} \X (0..600) :
                      /\ q[3] \in ObjFlagChoices(q[2])
                      /\ q[6] \in SizeChoices(q[2], q[3], q[4], q[5])}}

\* the entries generated ACLs are built from, each with one sub-authority
\* and one trailing byte: a plain entry (declared size zero, its length, or
\* far too much), an object callback entry with one GUID (its length, or
\* far too much) and an entry of unknown type
ACLEntries ==
  {EncodeACE(q[1], q[2], q[1] = 11, 1, 1, 1) :
     q \in {<<0, 0>>,
            <<0, NaturalLen(FALSE, 1, 1) + 1>>,
            <<0, NaturalLen(FALSE, 1, 1) + 1 + 256>>,
            <<11, NaturalLen(TRUE, 1, 1) + 1>>,
            <<11, NaturalLen(TRUE, 1, 1) + 1 + 256>>,
            <<99, NaturalLen(FALSE, 1, 1) + 1>>}}

RECURSIVE Concat(_)
Concat(ss) == IF ss = <<>> THEN <<>> ELSE Head(ss) \o Concat(Tail(ss))

EntryLists == UNION {[1..k -> ACLEntries] : k \in 0..MaxCount}

\* whole and cut-short ACL buffers, and headers too short to unpack
ACLInputs ==
  UNION {Prefixes(<<q[1], 0>> \o LE16(AclHeaderLen + Len(Concat(q[3])))
                    \o LE16(q[2]) \o <<0, 0>> \o Concat(q[3]),
                  {AclHeaderLen + Len(Concat(q[3])) - 1,
                   AclHeaderLen + Len(Concat(q[3]))})
           : q \in {2, 3, 4} \X (0..MaxCount) \X EntryLists}

\* ------------------------------------------------------------- state
VARIABLES
  data,       \* the buffer handed to the decoder
  pc,         \* "idle", "ace_done", "acl_loop" or "acl_done"
  rev, sbz1, size, count, sbz2,   \* the unpacked ACL header
  start_pos,  \* cursor of the entry loop
  aces,       \* entries decoded so far
  n_iter,     \* iterations of the entry loop started so far
  trace,      \* per ACE.from_binary call: the slice's offset and the frame
  result      \* what the call returned or raised

vars == <<data, pc, rev, sbz1, size, count, sbz2, start_pos, aces, n_iter,
          trace, result>>

NoResult == [status |-> "pending", value |-> None]

\* no call has been made yet; every call is given a bytes object, so the
\* TypeError branches (lines 94-95, 195-196) are never taken
Init ==
  /\ pc = "idle"
  /\ data = <<>>
  /\ rev = 0 /\ sbz1 = 0 /\ size = 0 /\ count = 0 /\ sbz2 = 0
  /\ start_pos = 0
  /\ aces = <<>>
  /\ n_iter = 0
  /\ trace = <<>>
  /\ result = NoResult

\* a call of ACE.from_binary(d)
ACECall ==
  /\ pc = "idle"
  /\ data' \in ACEInputs
  /\ \E f \in {ACELocals(data')} : \E ace \in {ACEOutcome(f)} :
       /\ trace' = <<[start |-> 0, frame |-> f]>>
       /\ result' = [status |-> ace.status, value |-> ace.ace]
  /\ pc' = "ace_done"
  /\ UNCHANGED <<rev, sbz1, size, count, sbz2, start_pos, aces, n_iter>>

\* variant: the revision is validated as soon as the header is unpacked
ACLHeader_ValidatesRevision ==
  /\ pc = "idle"
  /\ data' \in ACLInputs
  /\ \E d \in {data'} :
       IF Len(Slice(d, 0, 8)) # 8
       THEN /\ result' = [status |-> "MalformedStructure", value |-> None]
            /\ pc' = "acl_done"
            /\ UNCHANGED <<rev, sbz1, size, count, sbz2, start_pos, aces>>
       ELSE /\ rev' = d[1]
            /\ sbz1' = d[2]
            /\ size' = U16LE(Slice(d, 2, 4))
            /\ count' = U16LE(Slice(d, 4, 6))
            /\ sbz2' = U16LE(Slice(d, 6, 8))
            /\ start_pos' = 8
            /\ aces' = <<>>
            /\ IF d[1] \in ACLRevision
                 THEN pc' = "acl_loop" /\ UNCHANGED result
                 ELSE /\ pc' = "acl_done"
                      /\ result' = [status |-> "UnrecognizedDiscriminant",
                                    value |-> None]
  /\ UNCHANGED <<n_iter, trace>>

\* a call of ACL.from_binary(d), lines 197-199: the header
ACLHeader ==
  /\ pc = "idle"
  /\ data' \in ACLInputs
  /\ \E d \in {data'} :
       IF Len(Slice(d, 0, 8)) # 8
       THEN /\ result' = [status |-> "MalformedStructure", value |-> None]
            /\ pc' = "acl_done"
            /\ UNCHANGED <<rev, sbz1, size, count, sbz2, start_pos, aces>>
       ELSE /\ rev' = d[1]
            /\ sbz1' = d[2]
            /\ size' = U16LE(Slice(d, 2, 4))
            /\ count' = U16LE(Slice(d, 4, 6))
            /\ sbz2' = U16LE(Slice(d, 6, 8))
            /\ start_pos' = 8
            /\ aces' = <<>>
            /\ pc' = "acl_loop"
            /\ UNCHANGED result
  /\ UNCHANGED <<n_iter, trace>>

\* variant: the cursor is forgotten, data[8:]
EntrySlice_NoCursor(d, sp) == SliceFrom(d, 8)

\* line 201: data[start_pos:]
EntrySlice(d, sp) == SliceFrom(d, sp)

\* variant: an entry that fails to decode is skipped
ACLEntry_SkipFailed ==
  /\ pc = "acl_loop"
  /\ n_iter < count
  /\ \E d \in {SliceFrom(data, start_pos)} :
     \E f \in {ACELocals(d)} : \E ace \in {ACEOutcome(f)} :
       /\ n_iter' = n_iter + 1
       /\ trace' = Append(trace, [start |-> start_pos, frame |-> f])
       /\ IF ace.status # "ok"
            THEN UNCHANGED <<aces, start_pos, result, pc>>
            ELSE /\ aces' = Append(aces, ace.ace[1])
                 /\ start_pos' = start_pos + ace.ace[1].size
                 /\ UNCHANGED <<result, pc>>
  /\ UNCHANGED <<data, rev, sbz1, size, count, sbz2>>

\* variant: the loop runs once more than aceCount, range(count + 1)
ACLEntry_OneMore ==
  /\ pc = "acl_loop"
  /\ n_iter < count + 1
  /\ \E d \in {SliceFrom(data, start_pos)} :
     \E f \in {ACELocals(d)} : \E ace \in {ACEOutcome(f)} :
       /\ n_iter' = n_iter + 1
       /\ trace' = Append(trace, [start |-> start_pos, frame |-> f])
       /\ IF ace.status # "ok"
            THEN /\ result' = [status |-> ace.status, value |-> None]
                 /\ pc' = "acl_done"
                 /\ UNCHANGED <<aces, start_pos>>
            ELSE /\ aces' = Append(aces, ace.ace[1])
                 /\ start_pos' = start_pos + ace.ace[1].size
                 /\ UNCHANGED <<result, pc>>
  /\ UNCHANGED <<data, rev, sbz1, size, count, sbz2>>

\* lines 200-203: one iteration of the entry loop
ACLEntry ==
  /\ pc = "acl_loop"
  /\ n_iter < count
  /\ \E d \in {EntrySlice(data, start_pos)} :
     \E f \in {ACELocals(d)} : \E ace \in {ACEOutcome(f)} :
       /\ n_iter' = n_iter + 1
       /\ trace' = Append(trace, [start |-> start_pos, frame |-> f])
       /\ IF ace.status # "ok"
            THEN /\ result' = [status |-> ace.status, value |-> None]
                 /\ pc' = "acl_done"
                 /\ UNCHANGED <<aces, start_pos>>
            ELSE /\ aces' = Append(aces, ace.ace[1])
                 /\ start_pos' = start_pos + ace.ace[1].size
                 /\ UNCHANGED <<result, pc>>
  /\ UNCHANGED <<data, rev, sbz1, size, count, sbz2>>

\* lines 204-206: after the loop, the revision is converted and the ACL built
ACLConstruct ==
  /\ pc = "acl_loop"
  /\ n_iter = count
  /\ IF rev \in ACLRevision
       THEN result' = [status |-> "ok",
                       value |-> Some([revision |-> rev, aces |-> aces,
                                       sbz1 |-> sbz1, sbz2 |-> sbz2,
                                       size |-> size])]
       ELSE result' = [status |-> "UnrecognizedDiscriminant", value |-> None]
  /\ pc' = "acl_done"
  /\ UNCHANGED <<data, rev, sbz1, size, count, sbz2, start_pos, aces, n_iter,
                 trace>>

Next == ACECall \/ ACLHeader \/ ACLEntry \/ ACLConstruct

Spec == Init /\ [][Next]_vars

\* the decoders are plain sequential code: every enabled step is taken
FairSpec == Spec /\ WF_vars(Next)

\* ============================================================ claims
\* What the claims read off the wire, stated without the decoder.
Remaining(k) == Len(data) - trace[k].start

\* the bytes the k-th ACE.from_binary call was given
Given(k) == IF trace[k].start >= Len(data) THEN <<>>
            ELSE SubSeq(data, trace[k].start + 1, Len(data))

\* the u16-le at bytes 2..4 of a buffer of at least 4 bytes
Declared(d) == d[3] + 256 * d[4]

\* offset of the i-th entry (i = 0, 1, ...) of an ACL: 8 plus the declared
\* sizes of the entries before it
RECURSIVE WireOffset(_)
WireOffset(i) ==
  IF i = 0 THEN 8
  ELSE WireOffset(i - 1)
         + data[WireOffset(i - 1) + 3] + 256 * data[WireOffset(i - 1) + 4]

WireFrom(o) == IF o >= Len(data) THEN <<>> ELSE SubSeq(data, o + 1, Len(data))

OkFrames == {k \in 1..Len(trace) : trace[k].frame.status = "ok"}

\* bytes consumed by header, mask, object extension, trustee and
\* application data of a decoded entry
Consumed(f) ==
  f.pos + (IF f.application_data = None THEN 0 ELSE Len(f.application_data[1]))

\* ---- C1
\* C1: when ACL.from_binary succeeds, aces has exactly aceCount entries (the
\* u16-le at bytes 4..6) in wire order, the i-th being ACE.from_binary of the
\* buffer from offset 8 + the declared sizes of the entries before it; with
\* aceCount = 0 the sequence is empty and no entry is decoded.
C1_AcesFollowWire ==
  (pc = "acl_done" /\ result.status = "ok") =>
    LET acl == result.value[1]
        cnt == data[5] + 256 * data[6]
    IN /\ Len(acl.aces) = cnt
       /\ \A i \in 1..cnt :
            /\ ACEFromBinary(WireFrom(WireOffset(i - 1))).status = "ok"
            /\ acl.aces[i] = ACEFromBinary(WireFrom(WireOffset(i - 1))).ace[1]
            /\ trace[i].start = WireOffset(i - 1)
       /\ Len(trace) = cnt
       /\ (cnt = 0 => acl.aces = <<>> /\ trace = <<>>)

\* two different entries were decoded into a returned ACL
C1_Witness ==
  /\ pc = "acl_done" /\ result.status = "ok"
  /\ Len(result.value[1].aces) = 2
  /\ result.value[1].aces[1].type = 0
  /\ result.value[1].aces[2].type = 11
  /\ trace[2].start = 8 + result.value[1].aces[1].size
  /\ result.value[1].aces[1].size > 0

\* ---- C2
\* C2: when an entry's declared aceSize exceeds the bytes remaining from its
\* start, decoding fails (MalformedStructure) in ACE.from_binary and
\* ACL.from_binary alike: no ACE or ACL built from a truncated entry is
\* returned.  Stated for the entries the decoder accepted (known type code).
C2_OversizedEntryFails ==
  \A k \in OkFrames :
    (pc \in {"ace_done", "acl_done"} /\ Declared(Given(k)) > Remaining(k))
      => (result.status = "MalformedStructure" /\ result.value = None)

\* ---- C3
\* C3 as claimed: ACE.from_binary on any buffer whose first byte is not a
\* known type code fails with UnrecognizedDiscriminant, whatever follows.
C3_Original ==
  (pc = "ace_done" /\ Len(data) >= 1 /\ data[1] \notin 0..19) =>
    (result.status = "UnrecognizedDiscriminant" /\ result.value = None)

\* C3 amended: on a buffer of at least 8 bytes whose first byte is not in
\* 0..19 ACE.from_binary fails with UnrecognizedDiscriminant; on a shorter
\* one it fails with MalformedStructure (header and mask are unpacked first);
\* every call returns either an ACE with all fields set or no value.
C3_UnknownTypeFails ==
  pc = "ace_done" =>
    /\ (Len(data) >= 8 /\ data[1] \notin 0..19) =>
         (result.status = "UnrecognizedDiscriminant" /\ result.value = None)
    /\ (Len(data) < 8) =>
         (result.status = "MalformedStructure" /\ result.value = None)
    /\ result.status # "ok" => result.value = None
    /\ result.status = "ok" =>
         /\ result.value # None
         /\ result.value[1].type = data[1]
         /\ result.value[1].type \in 0..19
         /\ result.value[1].size = Declared(data)
         /\ result.value[1].mask = <<data[5], data[6], data[7], data[8]>>
         /\ result.value[1].trustee_sid.revision
              = data[trace[1].frame.sid_pos + 1]

C3_Witness ==
  /\ pc = "ace_done" /\ Len(data) >= 8 /\ data[1] = 99
  /\ result.status = "UnrecognizedDiscriminant"

\* ---- C4
\* C4: for every decoded ACE the size accessor is the declared u16-le at
\* bytes 2..4, and decoding the entry at offset o reads no byte at or beyond
\* o + size (standalone and inside ACL.from_binary).
C4_NoReadPastSize ==
  \A k \in OkFrames :
    /\ trace[k].frame.size = Declared(Given(k))
    /\ trace[k].frame.read_end <= trace[k].frame.size

\* ---- C5
\* C5: for a decoded ACE of an object-family type (5, 6, 7, 8, 11, 12, 15,
\* 16) object_type is present iff bit 0 of the object flags at bytes 8..12
\* is set and inherited_object_type iff bit 1, independently; object_type is
\* read first and each present GUID takes 16 bytes; for any other type both
\* are absent and the trustee starts at offset 8.
C5_ObjectFields ==
  \A k \in OkFrames :
    LET d  == Given(k)
        f  == trace[k].frame
        b0 == d[9] % 2 = 1
        b1 == (d[9] \div 2) % 2 = 1
        o1 == 12
        o2 == IF b0 THEN 28 ELSE 12
    IN IF d[1] \in {5, 6, 7, 8, 11, 12, 15, 16}
         THEN /\ (f.object_type # None) <=> b0
              /\ (f.inherited_object_type # None) <=> b1
              /\ b0 => f.object_type = <<SubSeq(d, o1 + 1, o1 + 16)>>
              /\ b1 => f.inherited_object_type = <<SubSeq(d, o2 + 1, o2 + 16)>>
              /\ f.sid_pos = 12 + (IF b0 THEN 16 ELSE 0) + (IF b1 THEN 16 ELSE 0)
              /\ f.trustee_sid[1].revision = d[f.sid_pos + 1]
         ELSE /\ f.object_type = None
              /\ f.inherited_object_type = None
              /\ f.sid_pos = 8
              /\ f.trustee_sid[1].revision = d[9]

\* an object-family entry with both GUIDs, different from each other
C5_Witness ==
  /\ pc = "ace_done" /\ result.status = "ok"
  /\ data[1] = 16 /\ data[9] = 3
  /\ result.value[1].object_type = <<Rep(161, 16)>>
  /\ result.value[1].inherited_object_type = <<Rep(178, 16)>>

\* ---- C6
\* the payload of a decoded entry, an absent one counted as empty
AppBytes(f) ==
  IF f.application_data = None THEN <<>> ELSE f.application_data[1]

\* C6: for a decoded ACE of a callback-family type (9..16) or of type 7
\* application_data is exactly the bytes from the trustee's end up to the
\* declared aceSize, non-empty whenever aceSize exceeds the bytes consumed
\* before it; for every other type it is absent.  Stated for the entries
\* that lie within the buffer and whose declared size covers the fields
\* parsed before the payload.
C6_ApplicationData ==
  \A k \in OkFrames :
    LET d == Given(k)
        f == trace[k].frame
    IN (f.pos <= Declared(d) /\ Declared(d) <= Len(d)) =>
       IF d[1] \in {7, 9, 10, 11, 12, 13, 14, 15, 16}
         THEN /\ Len(AppBytes(f)) = Declared(d) - f.pos
              /\ \A i \in 1..Len(AppBytes(f)) : AppBytes(f)[i] = d[f.pos + i]
         ELSE f.application_data = None

\* ---- C7
\* end of the trustee of an entry, read off the wire: header, mask, the
\* object extension of the object family, 8 bytes and 4 per sub-authority
WireTrusteeStart(d) ==
  IF d[1] \in {5, 6, 7, 8, 11, 12, 15, 16}
    THEN 12 + (IF d[9] % 2 = 1 THEN 16 ELSE 0)
            + (IF (d[9] \div 2) % 2 = 1 THEN 16 ELSE 0)
    ELSE 8

WireTrusteeEnd(d) == WireTrusteeStart(d) + 8 + 4 * d[WireTrusteeStart(d) + 2]

\* C7 as claimed: for any buffer ACE.from_binary decodes, the bytes consumed
\* by header, mask, object extension, trustee and application data equal
\* the declared size exactly.  Stated for the entries that lie within the
\* buffer and whose declared size covers the fields parsed before the
\* payload.
C7_Original ==
  \A k \in OkFrames :
    (trace[k].frame.pos <= Declared(Given(k))
       /\ Declared(Given(k)) <= Len(Given(k)))
      => Consumed(trace[k].frame) = Declared(Given(k))

\* C7 amended: header, mask, object extension and trustee consume the bytes
\* up to the trustee's end, application data (types 7, 9..13 only) the bytes
\* from there up to min(declared size, buffer length); the total equals the
\* declared size exactly when the type is one of 7, 9..13 and trustee end <=
\* size <= buffer length, or it is another type and the trustee ends at size.
C7_ConsumedLength ==
  \A k \in OkFrames :
    LET d   == Given(k)
        f   == trace[k].frame
        te  == WireTrusteeEnd(d)
        cap == d[1] \in {7, 9, 10, 11, 12, 13}
        upto == IF Declared(d) < Len(d) THEN Declared(d) ELSE Len(d)
    IN /\ f.pos = te
       /\ Consumed(f) = te + (IF cap /\ upto > te THEN upto - te ELSE 0)
       /\ (Consumed(f) = Declared(d)) <=>
            \/ cap /\ te <= Declared(d) /\ Declared(d) <= Len(d)
            \/ ~cap /\ te = Declared(d)

\* a callback entry with a payload whose fields add up to its declared size
C7_Witness ==
  /\ pc = "ace_done" /\ result.status = "ok"
  /\ data[1] = 9
  /\ Len(result.value[1].application_data[1]) >= 1
  /\ Len(data) = Declared(data)
  /\ Consumed(trace[1].frame) = Declared(data)

\* ---- C8
\* the first entry (1-based, at most cnt) whose decoding fails, following
\* the declared sizes from offset o; 0 when none fails
RECURSIVE FirstBad(_, _, _)
FirstBad(o, i, cnt) ==
  IF i > cnt THEN [k |-> 0, status |-> "ok"]
  ELSE LET r == ACEFromBinary(WireFrom(o)) IN
       IF r.status # "ok" THEN [k |-> i, status |-> r.status]
       ELSE FirstBad(o + data[o + 3] + 256 * data[o + 4], i + 1, cnt)

\* C8: when decoding the k-th entry (k <= aceCount) fails, ACL.from_binary
\* fails with that entry's error kind and returns no ACL, however many
\* entries before it decoded; a buffer shorter than the 8-byte header fails
\* with a decode failure.
C8_EntryFailurePropagates ==
  pc = "acl_done" =>
    IF Len(data) < 8
      THEN result.status = "MalformedStructure" /\ result.value = None
      ELSE LET bad == FirstBad(8, 1, data[5] + 256 * data[6]) IN
           bad.k > 0 =>
             /\ result.status = bad.status
             /\ result.value = None
             /\ Len(trace) = bad.k
             /\ trace[bad.k].frame.status = bad.status

\* the second entry has an unknown type after a first one that decoded
C8_Witness ==
  /\ pc = "acl_done" /\ rev \in {2, 4}
  /\ Len(aces) = 1 /\ Len(trace) = 2
  /\ result.status = "UnrecognizedDiscriminant" /\ result.value = None

\* ---- C9
\* C9 as claimed: the revision is validated right after the header and
\* before any ACE is decoded: an unrecognized revision always fails with
\* UnrecognizedDiscriminant and no ACE decode step is performed for it.
C9_Original ==
  (pc \in {"acl_loop", "acl_done"} /\ Len(data) >= 8 /\ data[1] \notin {2, 4})
    => /\ trace = <<>>
       /\ pc = "acl_done" => result.status = "UnrecognizedDiscriminant"

\* C9 amended: the revision is validated after the aceCount entries have
\* been decoded: a buffer with an unrecognized revision always fails, with
\* the first failing entry's error when an entry fails to decode and with
\* UnrecognizedDiscriminant when all aceCount entries decode.
C9_RevisionCheckedLast ==
  (pc = "acl_done" /\ Len(data) >= 8 /\ data[1] \notin {2, 4}) =>
    LET cnt == data[5] + 256 * data[6]
        bad == FirstBad(8, 1, cnt)
    IN /\ result.status # "ok" /\ result.value = None
       /\ bad.k > 0 => (result.status = bad.status /\ Len(trace) = bad.k)
       /\ bad.k = 0 => (result.status = "UnrecognizedDiscriminant"
                          /\ Len(trace) = cnt)

\* an unrecognized revision, yet the failure is a malformed entry's
C9_Witness ==
  /\ pc = "acl_done" /\ rev = 3 /\ count > 0
  /\ Len(trace) = 2 /\ Len(aces) = 1
  /\ result.status = "MalformedStructure"

\* ---- C10
\* C10: ACL.from_binary terminates on every buffer: the entry loop runs at
\* most aceCount (<= 65535) times, also when an entry declares size 0, in
\* which case the cursor stays and the same bytes are decoded again.
C10_Terminates ==
  /\ []((n_iter <= count /\ count <= 65535 /\ Len(trace) = n_iter)
          \/ pc \in {"idle", "ace_done"})
  /\ [][(pc = "acl_loop" /\ pc' = "acl_loop" /\ n_iter' = n_iter + 1
           /\ data[start_pos + 3] + 256 * data[start_pos + 4] = 0)
          => (start_pos' = start_pos /\ Len(aces') = Len(aces) + 1)]_vars
  /\ <>(pc \in {"ace_done", "acl_done"})

\* a size-0 entry was decoded twice at the same offset and the call ended
C10_Witness ==
  /\ pc = "acl_done" /\ result.status = "ok"
  /\ Len(trace) = 2 /\ trace[1].start = 8 /\ trace[2].start = 8
  /\ aces[1] = aces[2] /\ aces[1].size = 0

====
